---------------------------- MODULE Spec2Model ----------------------------
(***************************************************************************)
(* The four crawlers of the repository as one state machine.               *)
(*                                                                         *)
(*   danbooru  src/danbooru_crawler.py       DanbooruCrawler.crawl         *)
(*   pixiv     src/pixiv_crawler.py          PixivCrawler.search_and_...   *)
(*   ranking   src/pixiv_ranking_crawler.py  PixivRankingCrawler.run       *)
(*   unsplash  src/unsplash_crawler.py       Crawler.crawl                 *)
(*                                                                         *)
(* Each crawler is a single sequential loop.  `prog` says which one runs,  *)
(* `pc` where it stands.  One action is one network call together with     *)
(* everything the code does with its answer up to the next network call.   *)
(* The upstream service and the local disk are the environment: their      *)
(* answers are drawn with \E from small sets.                              *)
(***************************************************************************)
EXTENDS Integers, Sequences, FiniteSets, TLC

(* ------------------------------ bounds -------------------------------- *)
NumIds == 2          \* post / illust ids are 1..NumIds
MaxPosts == 2        \* items on one result page
MaxPages == 5        \* largest max_pages / page number explored
MaxStart == 2        \* largest start_page
RerunPages == 2      \* pages of the fixed upstream of the two-run scenario
DiskFaults == 1      \* failed local writes in one run
PageFaults == 1      \* failed page requests in one run of a session-based crawler
ItemFaults == 1      \* failed detail or image requests in such a run

Ids == 1..NumIds
(* An illust id whose decimal digits contain "429". *)
RateLikeId == 4290 + 1
IllustIds == Ids \cup {RateLikeId}

RECURSIVE SeqsUpTo(_, _)
SeqsUpTo(S, n) ==
    IF n = 0 THEN {<<>>}
    ELSE LET shorter == SeqsUpTo(S, n - 1)
         IN  shorter \cup {Append(s, x) : s \in {t \in shorter : Len(t) = n - 1}, x \in S}

(* --------------------------- the sink (disk) -------------------------- *)
(* An asset file is absent, present with all its bytes, or present with    *)
(* only part of them (open(..., 'wb') succeeded, a later write did not),   *)
(* or present with bytes that are not the asset ("other").                 *)
(* A key is <<id, page_index>>; the crawlers without sub-assets use 0.     *)
MaxSub == 2
Keys == IllustIds \X (0..(MaxSub - 1))
Key(id, i) == <<id, i>>
FileStates == {"none", "partial", "full", "other"}
MetaResults == {"ok", "none", "partial"}

VARIABLES
    prog,             \* which crawler this run is
    pc,               \* where its loop stands
    run,              \* 1: first run; 2: second run over the same output directory
    page,             \* the page number of the pagination loop
    files,            \* output_dir: key -> state of the asset file
    meta,             \* output_dir/metadata: keys that have a metadata record
    \* DanbooruCrawler
    max_pages,        \* self.max_pages
    posts,            \* the posts of the current page still to be processed
    empty_post_cnt,   \* crawl's local counter
    image_id_set,     \* crawl's local seen-id set
    metadata,         \* len(self.metadata)
    upstream,         \* two-run scenario: page -> response of the source
    imgResp,          \* two-run scenario: id -> does the image URL answer 200
    dropped,          \* history: how the last step passed over an item, see Drops
    cookie_file,      \* the cookie file the crawler is built from, see CookieFiles
    now,              \* time.time(), in tenths of a second
    last_request_time,
    returned,         \* history: when the last two rate_limit calls returned
    \* PixivCrawler
    cookies,          \* len(self.cookies)
    current_cookie_index,
    session,          \* index of the cookie self.session was built with
    max_images,       \* search_and_download / run argument
    downloaded_count, \* search_and_download's local counter
    data,             \* illusts of the current search page still to be visited
    illust,           \* illust['id'] of the illust being handled (0: none)
    attempt,          \* get_image_details' loop variable
    pages,            \* get_image_details: body of the /pages answer
    image_urls,       \* zip(image_urls, metadata_list) still to download:
                      \*   each element is the 'page' field of its metadata
    page_index,       \* enumerate index of the download loop
    env,              \* the environment of the run and what it may still do, see Env
    \* history (not program state)
    op,               \* the operation in progress or just ended, see NewOp
    rotHist,          \* current_cookie_index before and after the last rotations
    dlCalls,          \* id -> number of download_image calls in this run
    written,          \* keys whose asset file was written in this run
    nFetch,           \* page fetches issued in this run
    allEmpty,         \* every page fetch of this run so far returned no posts
    lastFetch,        \* the most recent page fetch: [page, ok]
    prevFetch         \* the page fetch before it

sinkVars == <<files, meta>>
danLoop == <<max_pages, posts, empty_post_cnt, image_id_set, metadata>>
danVars == <<danLoop, dropped>>
envVars == <<upstream, imgResp, cookie_file, now, last_request_time, returned>>
(* The environment of a run of a session-based crawler.  How many          *)
(* requests of each kind ("page": the requests for a result page, "item":  *)
(* those for the details or the bytes of one item) and how many local      *)
(* writes ("disk") may still fail: a failure is possible only while its    *)
(* count is positive, and uses one up.  And the size of what the source    *)
(* answers: at most `posts` items on a page, `subs` pages in an illust,    *)
(* and no page requested beyond page `last`.                               *)
Env(p, i, d, posts_, subs_, last_) ==
    [page |-> p, item |-> i, disk |-> d, posts |-> posts_, subs |-> subs_, last |-> last_]
Charge(site, failed) ==
    IF failed THEN env[site] > 0 /\ env' = [env EXCEPT ![site] = @ - 1]
    ELSE env' = env

(* Only a write that is attempted fails, and of the asset and its          *)
(* metadata record at most one: the second is not written after the first  *)
(* failed.                                                                 *)
DiskFault(diskOk, metaRes, writes) ==
    /\ ~(diskOk /\ metaRes = "ok") => writes
    /\ ~diskOk => metaRes = "ok"
credVars == <<cookies, current_cookie_index, session>>
pixLoop == <<max_images, downloaded_count, data, illust, attempt, pages, image_urls,
             page_index>>
pixHist == <<op>>
pixVars == <<credVars, pixLoop, pixHist, rotHist>>
histVars == <<dlCalls, written, nFetch, allEmpty, lastFetch, prevFetch>>
vars == <<prog, pc, run, page, sinkVars, danVars, envVars, env, pixVars, histVars>>

(* self.min_request_interval = 2.0 (seconds), here in tenths. *)
min_request_interval == 20

(* A crawler starts long after the epoch: the first rate_limit call finds   *)
(* the interval elapsed.  last_request_time = 0 is line 19.                *)
StartClock ==
    /\ now = min_request_interval
    /\ last_request_time = 0
    /\ returned = <<>>

(* A cookie file: absent, or its lines, each blank (FALSE) or not. *)
NoCookieFile == [exists |-> FALSE, lines |-> <<>>]
CookieLines(n) == [exists |-> TRUE, lines |-> [i \in 1..n |-> TRUE]]

NoFetch == [page |-> 0, ok |-> TRUE]
LogFetch(p, ok) ==
    /\ prevFetch' = lastFetch
    /\ lastFetch' = [page |-> p, ok |-> ok]

max_retries == 3

(* History of one logical operation of a PixivCrawler (a search-page      *)
(* fetch with its retries, or one get_image_details call), kept until the  *)
(* next request after it ends: the number of its failed attempts and the   *)
(* rotations made while handling them (both counted up to max_retries +    *)
(* 1), the error kind of the first failed attempt, whether its last        *)
(* request saw HTTP 429 and then 200 inside one session.get, how it        *)
(* ended, and the base delays (seconds, jitter left out) that              *)
(* get_image_details slept between its attempts.  bare: the last step     *)
(* sent a request that no rate_limit() call came before.                   *)
NewOp == [what |-> "none", n |-> 0, first |-> "none", rot |-> 0, absorbed |-> FALSE,
          result |-> "none", delays |-> <<>>, bare |-> FALSE]
StartOp(what) == [NewOp EXCEPT !.what = what]
(* One more failed attempt, of kind `kind`, in history h. *)
LogFail(h, kind) ==
    [h EXCEPT !.n = IF @ <= max_retries THEN @ + 1 ELSE @,
              !.first = IF h.n = 0 THEN kind ELSE @]
LogRotation(h) == [h EXCEPT !.rot = IF @ <= max_retries THEN @ + 1 ELSE @]

(* How a step of DanbooruCrawler.crawl or PixivRankingCrawler.run passed   *)
(* over an item without storing it: "silent" when no line at all is        *)
(* printed for it, "logged" when an error line is printed, "no" when the   *)
(* step passed over nothing.  The log of the other crawlers is not         *)
(* followed.                                                               *)
Drops == {"no", "silent", "logged"}

(* ============================ DanbooruCrawler ========================== *)
(* A post as crawl reads it: its id and which of the checks of lines       *)
(* 91-107 it passes.  "nourl": no file_url; "tagmiss": self.tags is set    *)
(* and shares no tag with the post; "badext": extension not allowed.       *)
PostKinds == {"ok", "nourl", "tagmiss", "badext"}
Posts == [id : Ids, kind : PostKinds]
(* What one fetch of the source can produce: the request fails (exception  *)
(* or raise_for_status), or it answers a list of posts, possibly empty.    *)
FailedFetch == [ok |-> FALSE, posts |-> <<>>]
DanResponses == {FailedFetch} \cup {[ok |-> TRUE, posts |-> s] : s \in SeqsUpTo(Posts, MaxPosts)}

(* fetch_posts: a failure is logged and an empty list returned (l.54-56). *)
fetch_posts(resp) == IF ~resp.ok THEN <<>> ELSE resp.posts

(* The allowed extensions of line 106. *)
ExtAllowed(post) == post.kind # "badext"

AlreadySeen_Never(id, seen) == FALSE
(* The seen test of line 99. *)
AlreadySeen(id, seen) == id \in seen

(* for page in range(start_page, max_pages + 1): the next iteration. *)
DanAdvance ==
    /\ page' = page + 1
    /\ pc' = IF page + 1 <= max_pages THEN "fetch" ELSE "done"

EmptyLimit == 3
EmptyStop_Late(cnt) == cnt > EmptyLimit
(* if empty_post_cnt >= 3: break *)
EmptyStop(cnt) == cnt >= EmptyLimit

EmptyCount_NoReset(cnt, got) == IF got = <<>> THEN cnt + 1 ELSE cnt
(* l.79-80 and l.87-88: the count of consecutive empty results. *)
EmptyCount(cnt, got) == IF got = <<>> THEN cnt + 1 ELSE 0

(* Lines 76-88: one fetch, and the empty-page bookkeeping. *)
DanFetch(resp) ==
    /\ prog = "danbooru"
    /\ pc = "fetch"
    /\ LET got == fetch_posts(resp) IN
       /\ LogFetch(page, resp.ok)
       /\ nFetch' = nFetch + 1
       /\ allEmpty' = (allEmpty /\ got = <<>>)
       /\ empty_post_cnt' = EmptyCount(empty_post_cnt, got)
       /\ IF got = <<>>
          THEN /\ posts' = <<>>
               /\ IF EmptyStop(empty_post_cnt')
                  THEN pc' = "done" /\ page' = page
                  ELSE DanAdvance
          ELSE /\ posts' = got
               /\ pc' = "posts"
               /\ page' = page
    /\ dropped' = "no"
    /\ UNCHANGED <<prog, run, sinkVars, max_pages, image_id_set, metadata, envVars,
                   dlCalls, written, pixVars>>

(* Lines 91-107: the posts for which download_image is called. *)
DanDownloads(post, seen) ==
    /\ post.kind \notin {"nourl", "tagmiss"}
    /\ ~AlreadySeen(post.id, seen)
    /\ ExtAllowed(post)

(* download_image (l.58-67): True only when the request answered and all   *)
(* bytes were written; the file is opened with 'wb' before the write, so   *)
(* a failed write leaves a truncated file.                                 *)
DanDownloadFile(k, httpOk, diskOk) ==
    IF ~httpOk THEN files
    ELSE [files EXCEPT ![k] = IF diskOk THEN "full" ELSE "partial"]

(* After the last post of the page the for loop moves on. *)
DanAfterPost ==
    /\ posts' = Tail(posts)
    /\ IF Tail(posts) = <<>> THEN DanAdvance ELSE pc' = "posts" /\ page' = page

(* Lines 90-134: one iteration of the loop over the page's posts.         *)
(* httpOk: the image request answers 200; diskOk: the bytes get written;   *)
(* metaRes: the metadata file gets written ("ok"), cannot be opened        *)
(* ("none") or is created and not completed ("partial"); an exception      *)
(* there is not caught and ends the run.                                   *)
DanPost(httpOk, diskOk, metaRes) ==
    /\ prog = "danbooru"
    /\ pc = "posts"
    /\ posts # <<>>
    /\ DiskFault(diskOk, metaRes, DanDownloads(Head(posts), image_id_set) /\ httpOk)
    /\ LET post == Head(posts)
           id == post.id
           k == Key(id, 0)
       IN
       IF post.kind \in {"nourl", "tagmiss"} \/ AlreadySeen(id, image_id_set)
       THEN /\ DanAfterPost
            /\ dropped' = "silent"
            /\ UNCHANGED <<sinkVars, image_id_set, metadata, dlCalls, written>>
       ELSE
       /\ image_id_set' = image_id_set \cup {id}
       /\ IF ~ExtAllowed(post)
          THEN /\ DanAfterPost
               /\ dropped' = "silent"
               /\ UNCHANGED <<sinkVars, metadata, dlCalls, written>>
          ELSE
          /\ dlCalls' = [dlCalls EXCEPT ![id] = @ + 1]
          /\ files' = DanDownloadFile(k, httpOk, diskOk)
          /\ written' = IF httpOk THEN written \cup {k} ELSE written
          /\ dropped' = IF httpOk /\ diskOk THEN "no" ELSE "logged"
          /\ IF ~(httpOk /\ diskOk)
             THEN /\ DanAfterPost
                  /\ UNCHANGED <<meta, metadata>>
             ELSE
             /\ metadata' = metadata + 1
             /\ meta' = IF metaRes = "none" THEN meta ELSE meta \cup {k}
             /\ IF metaRes = "ok"
                THEN DanAfterPost
                ELSE /\ pc' = "crashed"
                     /\ UNCHANGED <<posts, page>>
    /\ UNCHANGED <<prog, run, max_pages, empty_post_cnt, envVars, nFetch, allEmpty,
                   lastFetch, prevFetch, pixVars>>

NoHistory ==
    /\ dlCalls = [i \in Ids |-> 0]
    /\ written = {}
    /\ nFetch = 0
    /\ allEmpty = TRUE
    /\ lastFetch = NoFetch
    /\ prevFetch = NoFetch

(* The variables of a PixivCrawler in a run of a crawler without them. *)
IdlePix ==
    /\ cookies = 1
    /\ current_cookie_index = 0
    /\ session = 0
    /\ rotHist = <<0>>
    /\ downloaded_count = 0
    /\ data = <<>>
    /\ illust = 0
    /\ attempt = 0
    /\ pages = <<>>
    /\ image_urls = <<>>
    /\ page_index = 0
    /\ op = NewOp

(* crawl(), from a fresh DanbooruCrawler over the output directory `sink`. *)
DanStart(sink, start, maxp) ==
    /\ prog = "danbooru"
    /\ page = start
    /\ max_pages = maxp
    /\ pc = IF start <= maxp THEN "fetch" ELSE "done"
    /\ files = sink[1]
    /\ meta = sink[2]
    /\ posts = <<>>
    /\ empty_post_cnt = 0
    /\ image_id_set = {}
    /\ metadata = 0
    /\ dropped = "no"
    /\ IdlePix
    /\ max_images = 0
    /\ NoHistory

EmptySink == <<[k \in Keys |-> "none"], {}>>

InitDan ==
    /\ run = 1
    /\ upstream = <<>>
    /\ imgResp = <<>>
    /\ cookie_file = NoCookieFile
    /\ StartClock
    /\ env = Env(0, 0, DiskFaults, MaxPosts, 1, MaxPages)
    /\ \E start \in 1..MaxStart, maxp \in 1..MaxPages : DanStart(EmptySink, start, maxp)

NextDan ==
    \/ \E resp \in DanResponses : DanFetch(resp) /\ UNCHANGED env
    \/ \E httpOk \in BOOLEAN, diskOk \in BOOLEAN, metaRes \in MetaResults :
          /\ DanPost(httpOk, diskOk, metaRes)
          /\ Charge("disk", ~(diskOk /\ metaRes = "ok"))

(* The two-run scenario: the source answers each page, and each image    *)
(* URL, the same way in both runs, and the local disk works.  The second   *)
(* run is a new DanbooruCrawler (new seen set, new self.metadata) over     *)
(* the output directory the first run left.                                *)
DanRestart ==
    /\ prog = "danbooru"
    /\ pc = "done"
    /\ run = 1
    /\ run' = 2
    /\ page' = 1
    /\ pc' = "fetch"
    /\ posts' = <<>>
    /\ empty_post_cnt' = 0
    /\ image_id_set' = {}
    /\ metadata' = 0
    /\ dropped' = "no"
    /\ dlCalls' = [i \in Ids |-> 0]
    /\ written' = {}
    /\ nFetch' = 0
    /\ allEmpty' = TRUE
    /\ lastFetch' = NoFetch
    /\ prevFetch' = NoFetch
    /\ UNCHANGED <<prog, sinkVars, max_pages, envVars, pixVars>>

InitRerun ==
    /\ run = 1
    /\ upstream \in [1..RerunPages -> DanResponses]
    /\ imgResp \in [Ids -> BOOLEAN]
    /\ cookie_file = NoCookieFile
    /\ StartClock
    /\ env = Env(0, 0, 0, MaxPosts, 1, RerunPages)
    /\ DanStart(EmptySink, 1, RerunPages)

NextRerun ==
    \/ pc = "fetch" /\ DanFetch(upstream[page]) /\ UNCHANGED env
    \/ /\ pc = "posts" /\ posts # <<>>
       /\ DanPost(imgResp[Head(posts).id], TRUE, "ok")
       /\ UNCHANGED env
    \/ DanRestart /\ UNCHANGED env

SpecRerun == InitRerun /\ [][NextRerun]_vars

(* ====================== HTTP sessions (requests) ======================= *)
(* One HTTP exchange answers 200 ("ok"), 429 ("rate"), a status of the    *)
(* retry list 500/502/503/504 ("srv"), another error status ("client"),    *)
(* or does not answer at all ("net").                                      *)
HttpAnswers == {"ok", "rate", "srv", "client", "net"}

(* create_session: Retry(total=3, status_forcelist=[429, 500, 502, 503,   *)
(* 504]) mounted on the session.  The session repeats an exchange that     *)
(* ends in one of these statuses or in a connection error, up to `total`   *)
(* times, inside one session.get; when the retries are used up the call    *)
(* raises (RetryError, ConnectionError).                                   *)
TransportRetries == 3
Retryable(a) == a \in {"rate", "srv", "net"}

RECURSIVE Transport(_, _)
Transport(answers, retries) ==
    LET a == Head(answers) IN
    IF ~Retryable(a) THEN [raised |-> FALSE, status |-> a]
    ELSE IF retries = 0 \/ Len(answers) = 1 THEN [raised |-> TRUE, status |-> a]
    ELSE Transport(Tail(answers), retries - 1)

(* The exchanges one session.get consumes: all but the last retryable. *)
WellFormed(answers, retries) ==
    /\ Len(answers) \in 1..(retries + 1)
    /\ \A j \in 1..(Len(answers) - 1) : Retryable(answers[j])
    /\ Retryable(answers[Len(answers)]) => Len(answers) = retries + 1
AnswerSeqs(retries) ==
    {a \in SeqsUpTo(HttpAnswers, retries + 1) : WellFormed(a, retries)}
PixAnswers == AnswerSeqs(TransportRetries)

(* session.get followed by raise_for_status: it returns, or raises an     *)
(* exception of requests whose kind is the last status seen.               *)
SessionGet(answers, retries) ==
    LET t == Transport(answers, retries) IN
    IF t.raised \/ t.status # "ok"
    THEN [ok |-> FALSE, kind |-> t.status]
    ELSE [ok |-> TRUE, kind |-> "ok"]

(* One session.get met HTTP 429 first and 200 on the next exchange. *)
Absorbed(answers) ==
    Len(answers) >= 2 /\ answers[1] = "rate" /\ answers[2] = "ok"

(* What the caller of one session.get of a PixivCrawler can observe, for   *)
(* every sequence of exchanges: the result, and whether a 429 was          *)
(* answered and retried inside the call.                                   *)
PixCalls ==
    {[r |-> SessionGet(a, TransportRetries), absorbed |-> Absorbed(a)] : a \in PixAnswers}

RECURSIVE Contains429(_)
Contains429(n) ==
    IF n < 429 THEN FALSE ELSE (n % 1000 = 429) \/ Contains429(n \div 10)

(* "429" in str(e), l.169: the message of a status or connection error    *)
(* names the status and the URL, and the URL holds the illust id; the      *)
(* message of a decoding error names neither.                              *)
Says429(kind, id) ==
    \/ kind = "rate"
    \/ kind \in {"srv", "client", "net"} /\ Contains429(id)

(* ============================== PixivCrawler =========================== *)
MaxCookies == 2      \* cookies of a crawler that runs a search
MaxPool == 12        \* cookies of a crawler whose rotation alone is followed
MaxImages == 2
MaxPixPages == 3     \* largest search page requested

Window(s, n) == IF Len(s) > n THEN SubSeq(s, Len(s) - n + 1, Len(s)) ELSE s

NextCookie_NoAdvance(i, k) == IF k > 1 /\ i = k - 1 THEN i ELSE (i + 1) % k
(* l.74 *)
NextCookie(i, k) == (i + 1) % k

rotate_cookie_StaleSession ==
    /\ current_cookie_index' = NextCookie(current_cookie_index, cookies)
    /\ session' = session
    /\ cookies' = cookies

(* rotate_cookie (l.72-77): the index moves on and the session is rebuilt *)
(* with cookies[current_cookie_index]; then it sleeps 5 s.                 *)
rotate_cookie ==
    /\ current_cookie_index' = NextCookie(current_cookie_index, cookies)
    /\ session' = NextCookie(current_cookie_index, cookies)
    /\ cookies' = cookies

(* An illust of a search page: its id and whether illustType is 0. *)
Illusts == [id : IllustIds, single : BOOLEAN]
SearchPages == SeqsUpTo(Illusts, env.posts)
(* What the body of an answered search request can be: not JSON, JSON of   *)
(* another shape than the chain of .get calls of l.224 accepts, or JSON    *)
(* with a (possibly empty or absent) list of illusts.                      *)
SearchContents ==
    {[kind |-> "decode", items |-> <<>>], [kind |-> "shape", items |-> <<>>]}
    \cup {[kind |-> "data", items |-> s] : s \in SearchPages}

RECURSIVE SkipToSingle(_)
(* l.233: illusts that are not single images are passed over. *)
SkipToSingle(rest) ==
    IF rest = <<>> THEN <<>>
    ELSE IF Head(rest).single THEN rest ELSE SkipToSingle(Tail(rest))

PixPageEnd_NoLimit(dc) ==
    /\ page' = page + 1
    /\ pc' = "search"
    /\ data' = <<>>
    /\ illust' = 0
    /\ attempt' = 0
    /\ pages' = <<>>
    /\ image_urls' = <<>>
    /\ page_index' = 0

(* The end of the for loop over the page (l.253) and its while test. *)
PixPageEnd(dc) ==
    /\ page' = page + 1
    /\ pc' = IF dc < max_images THEN "search" ELSE "done"
    /\ data' = <<>>
    /\ illust' = 0
    /\ attempt' = 0
    /\ pages' = <<>>
    /\ image_urls' = <<>>
    /\ page_index' = 0

(* The for loop of l.228 from `rest` on, with dc images downloaded: up to  *)
(* the next get_image_details call or the end of the page.                 *)
PixNextIllust(rest, dc) ==
    LET nxt == SkipToSingle(rest) IN
    IF dc >= max_images \/ nxt = <<>>
    THEN PixPageEnd(dc)
    ELSE /\ illust' = Head(nxt).id
         /\ data' = Tail(nxt)
         /\ attempt' = 0
         /\ pc' = "pages"
         /\ pages' = <<>>
         /\ image_urls' = <<>>
         /\ page_index' = 0
         /\ page' = page

(* except Exception of search_and_download (l.256-266): consecutive_errors *)
(* becomes 1, so the cookie is rotated and the counter reset, and the      *)
(* while loop goes on with the same page.                                  *)
PixOuterExcept ==
    /\ rotate_cookie
    /\ pc' = "search"
    /\ page' = page
    /\ data' = <<>>
    /\ illust' = 0
    /\ attempt' = 0
    /\ pages' = <<>>
    /\ image_urls' = <<>>
    /\ page_index' = 0

(* l.214-226: the search request of one page. *)
PixSearch(call, content) ==
    /\ prog = "pixiv"
    /\ pc = "search"
    /\ page <= env.last
    /\ LET r == call.r
           base == [(IF op.what = "search" /\ op.result = "none"
                     THEN op ELSE StartOp("search"))
                       EXCEPT !.absorbed = call.absorbed, !.bare = TRUE]
           good == r.ok /\ content.kind = "data"
           kind == IF ~r.ok THEN r.kind ELSE content.kind
       IN
       /\ LogFetch(page, good)
       /\ IF ~good
          THEN /\ PixOuterExcept
               /\ op' = LogRotation(LogFail(base, kind))
          ELSE /\ op' = [base EXCEPT !.result = "ok"]
               /\ UNCHANGED credVars
               /\ IF content.items = <<>>
                  THEN /\ pc' = "done"
                       /\ UNCHANGED <<page, data, illust, attempt, pages, image_urls,
                                      page_index>>
                  ELSE PixNextIllust(content.items, downloaded_count)
    /\ UNCHANGED <<prog, run, sinkVars, danVars, envVars, max_images, downloaded_count,
                   dlCalls, written, nFetch, allEmpty, rotHist>>

(* if attempt < max_retries - 1 (l.165) *)
RetryAllowed(a) == a < max_retries - 1
(* for attempt in range(max_retries) (l.111) *)
InRange(a) == a < max_retries

PixDetailsEmpty_Raises(d) ==
    /\ op' = [d EXCEPT !.result = "raised"]
    /\ PixOuterExcept

(* get_image_details returns ([], []) and search_and_download goes on     *)
(* with the next illust (l.239-240).                                       *)
PixDetailsEmpty(d) ==
    /\ op' = [d EXCEPT !.result = "empty"]
    /\ PixNextIllust(data, downloaded_count)

(* An exception of get_image_details that is no RequestException reaches   *)
(* the except of search_and_download.                                      *)
PixDetailsRaise(d) ==
    /\ op' = [d EXCEPT !.result = "raised"]
    /\ PixOuterExcept

Backoff_Flat(a) == 1
(* wait_time = (2 ** attempt) + random.uniform(0, 1) (l.166), its base. *)
Backoff(a) == 2 ^ a

(* except requests.exceptions.RequestException (l.164-173), and the next  *)
(* turn of the for loop of l.111; a loop that ends returns ([], []) too    *)
(* (l.175).                                                                *)
PixDetailsExcept(kind, d) ==
    LET logged == LogFail(d, kind)
        rotates == Says429(kind, illust)
        slept == [logged EXCEPT !.delays = Append(@, Backoff(attempt))]
        after == IF rotates THEN LogRotation(slept) ELSE slept
    IN
    IF RetryAllowed(attempt)
    THEN /\ IF rotates THEN rotate_cookie ELSE UNCHANGED credVars
         /\ IF InRange(attempt + 1)
            THEN /\ op' = after
                 /\ attempt' = attempt + 1
                 /\ pc' = "pages"
                 /\ pages' = <<>>
                 /\ UNCHANGED <<page, data, illust, image_urls, page_index>>
            ELSE PixDetailsEmpty(after)
    ELSE /\ UNCHANGED credVars
         /\ PixDetailsEmpty(logged)

(* The body of an answered /pages request: not JSON (the decoding error    *)
(* is a RequestException in requests >= 2.27 and a plain ValueError        *)
(* before), or one entry per page telling whether it has an original URL.  *)
PagesContents ==
    {[kind |-> "decode_req", body |-> <<>>], [kind |-> "decode_val", body |-> <<>>]}
    \cup {[kind |-> "body", body |-> b] : b \in SeqsUpTo(BOOLEAN, env.subs)}

(* l.113-117: rate_limit and the /pages request of one attempt. *)
PixPages(call, content) ==
    /\ prog = "pixiv"
    /\ pc = "pages"
    /\ LET r == call.r
           base == IF attempt = 0 THEN StartOp("details") ELSE op
           d == [base EXCEPT !.absorbed = call.absorbed, !.bare = FALSE]
       IN
       IF ~r.ok THEN PixDetailsExcept(r.kind, d)
       ELSE IF content.kind = "decode_req" THEN PixDetailsExcept("decode", d)
       ELSE IF content.kind = "decode_val" THEN PixDetailsRaise(d)
       ELSE /\ op' = d
            /\ pages' = content.body
            /\ pc' = "meta"
            /\ UNCHANGED <<credVars, page, data, illust, attempt, image_urls, page_index>>
    /\ UNCHANGED <<prog, run, sinkVars, danVars, envVars, max_images, downloaded_count,
                   histVars, rotHist>>

(* The body of an answered metadata request: not JSON, JSON with 'error'   *)
(* set, JSON without the keys l.130-146 read, or a usable body.            *)
MetaContents == {"ok", "error", "shape", "decode_req", "decode_val"}

RECURSIVE WithOriginal(_, _)
(* l.152-160: the pages that have an original URL, each with the 'page'    *)
(* field of its metadata (its position in the illust, from 0).             *)
WithOriginal(body, i) ==
    IF body = <<>> THEN <<>>
    ELSE IF Head(body) THEN <<i>> \o WithOriginal(Tail(body), i + 1)
    ELSE WithOriginal(Tail(body), i + 1)

(* l.120-162: rate_limit, the metadata request and the result lists. *)
PixMeta(call, content) ==
    /\ prog = "pixiv"
    /\ pc = "meta"
    /\ LET r == call.r
           d == [op EXCEPT !.absorbed = call.absorbed, !.bare = FALSE]
           urls == WithOriginal(pages, 0)
       IN
       IF ~r.ok THEN PixDetailsExcept(r.kind, d)
       ELSE IF content = "decode_req" THEN PixDetailsExcept("decode", d)
       ELSE IF content \in {"decode_val", "shape"} THEN PixDetailsRaise(d)
       ELSE IF content = "error" \/ urls = <<>>
       THEN /\ UNCHANGED credVars
            /\ PixDetailsEmpty(d)
       ELSE /\ op' = [d EXCEPT !.result = "ok"]
            /\ image_urls' = urls
            /\ page_index' = 0
            /\ pc' = "dl"
            /\ UNCHANGED <<credVars, page, data, illust, attempt, pages>>
    /\ UNCHANGED <<prog, run, sinkVars, danVars, envVars, max_images, downloaded_count,
                   histVars, rotHist>>

PixStore_MetaFirst(k, r, diskOk, metaRes) ==
    IF files[k] # "none" THEN [files |-> files, meta |-> meta, ret |-> FALSE]
    ELSE IF ~r.ok THEN [files |-> files, meta |-> meta \cup {k}, ret |-> FALSE]
    ELSE IF ~diskOk
    THEN [files |-> [files EXCEPT ![k] = "partial"], meta |-> meta \cup {k}, ret |-> FALSE]
    ELSE [files |-> [files EXCEPT ![k] = "full"], meta |-> meta \cup {k}, ret |-> TRUE]

PixStore_NoSkip(k, r, diskOk, metaRes) ==
    IF ~r.ok THEN [files |-> files, meta |-> meta, ret |-> FALSE]
    ELSE IF ~diskOk
    THEN [files |-> [files EXCEPT ![k] = "partial"], meta |-> meta, ret |-> FALSE]
    ELSE [files |-> [files EXCEPT ![k] = "full"],
          meta |-> IF metaRes = "none" THEN meta ELSE meta \cup {k},
          ret |-> metaRes = "ok"]

(* download_image (l.85-107): what it leaves on disk and what it returns. *)
(* Any exception is caught and gives False.                                *)
PixStore(k, r, diskOk, metaRes) ==
    IF files[k] # "none" THEN [files |-> files, meta |-> meta, ret |-> FALSE]
    ELSE IF ~r.ok THEN [files |-> files, meta |-> meta, ret |-> FALSE]
    ELSE IF ~diskOk
    THEN [files |-> [files EXCEPT ![k] = "partial"], meta |-> meta, ret |-> FALSE]
    ELSE [files |-> [files EXCEPT ![k] = "full"],
          meta |-> IF metaRes = "none" THEN meta ELSE meta \cup {k},
          ret |-> metaRes = "ok"]

(* l.242-251: one turn of the download loop of the current illust. *)
PixDownload(call, diskOk, metaRes) ==
    /\ prog = "pixiv"
    /\ pc = "dl"
    /\ DiskFault(diskOk, metaRes, files[Key(illust, page_index)] = "none" /\ call.r.ok)
    /\ LET k == Key(illust, page_index)
           st == PixStore(k, call.r, diskOk, metaRes)
           dc == IF st.ret THEN downloaded_count + 1 ELSE downloaded_count
       IN
       /\ files' = st.files
       /\ meta' = st.meta
       /\ downloaded_count' = dc
       /\ op' = [NewOp EXCEPT !.bare = (files[k] = "none")]
       /\ IF dc >= max_images
          THEN PixPageEnd(dc)
          ELSE IF Tail(image_urls) # <<>>
          THEN /\ image_urls' = Tail(image_urls)
               /\ page_index' = page_index + 1
               /\ UNCHANGED <<pc, page, data, illust, attempt, pages>>
          ELSE PixNextIllust(data, dc)
    /\ UNCHANGED <<prog, run, danVars, envVars, credVars, rotHist, max_images,
                   dlCalls, written, nFetch, allEmpty, lastFetch, prevFetch>>

(* The variables of DanbooruCrawler in a run of another crawler. *)
IdleDan ==
    /\ max_pages = 0
    /\ posts = <<>>
    /\ empty_post_cnt = 0
    /\ image_id_set = {}
    /\ metadata = 0
    /\ dropped = "no"
    /\ upstream = <<>>
    /\ imgResp = <<>>
    /\ StartClock

(* __init__ (l.13-23) and the first lines of search_and_download          *)
(* (l.177-212), over an empty output directory.                            *)
InitPixWith(pool, b) ==
    /\ prog = "pixiv"
    /\ env = b
    /\ run = 1
    /\ pc = "search"
    /\ page = 1
    /\ files = EmptySink[1]
    /\ meta = EmptySink[2]
    /\ IdleDan
    /\ cookies \in pool
    /\ cookie_file = CookieLines(cookies)
    /\ current_cookie_index = 0
    /\ session = 0
    /\ rotHist = <<0>>
    /\ max_images \in 1..MaxImages
    /\ downloaded_count = 0
    /\ data = <<>>
    /\ illust = 0
    /\ attempt = 0
    /\ pages = <<>>
    /\ image_urls = <<>>
    /\ page_index = 0
    /\ op = NewOp
    /\ NoHistory

(* The body of a request that raised is never read. *)
Read(ok, contents) == IF ok THEN contents ELSE {CHOOSE c \in contents : TRUE}

(* download_image sends no request for an asset that exists. *)
Sent(k, calls) == IF files[k] = "none" THEN calls ELSE {CHOOSE c \in calls : c.ok}

PixSent(k) == IF files[k] = "none" THEN PixCalls ELSE {CHOOSE c \in PixCalls : c.r.ok}

NextPix ==
    \/ \E call \in PixCalls : \E content \in Read(call.r.ok, SearchContents) :
          /\ PixSearch(call, content)
          /\ Charge("page", ~call.r.ok \/ content.kind # "data")
    \/ \E call \in PixCalls : \E content \in Read(call.r.ok, PagesContents) :
          /\ PixPages(call, content)
          /\ Charge("item", ~call.r.ok \/ content.kind # "body")
    \/ \E call \in PixCalls : \E content \in Read(call.r.ok, MetaContents) :
          /\ PixMeta(call, content)
          /\ Charge("item", ~call.r.ok \/ content \in {"shape", "decode_req", "decode_val"})
    \/ /\ pc = "dl"
       /\ prog = "pixiv"
       /\ \E call \in PixSent(Key(illust, page_index)), diskOk \in BOOLEAN,
             metaRes \in MetaResults :
             /\ PixDownload(call, diskOk, metaRes)
             /\ IF call.r.ok THEN Charge("disk", ~(diskOk /\ metaRes = "ok"))
                ELSE Charge("item", TRUE)

(* A search with a small answer and room for a whole get_image_details to  *)
(* fail.                                                                   *)
InitRetry == InitPixWith(1..MaxCookies, Env(PageFaults, max_retries, 0, MaxPosts, 1, 1))

SpecPix == InitRetry /\ [][NextPix]_vars

(* rotate_cookie called on a crawler just built, again and again; rotHist  *)
(* holds current_cookie_index before and after the last len(cookies)       *)
(* calls.                                                                  *)
(* time.sleep(5) of l.77, in tenths of a second. *)
RotateCooldown == 50
RotateHorizon == 700

Cooldown_Skipped(t) == t
(* l.77: the call returns no sooner than the cooldown after it began. *)
Cooldown(t) == t + RotateCooldown

(* One call of rotate_cookie on its own, with the clock: l.72-77.  The run *)
(* specifications do not track the clock; this one and SpecLimit do.       *)
PixRotate ==
    /\ prog = "pixiv"
    /\ now < RotateHorizon
    /\ rotate_cookie
    /\ now' = Cooldown(now)
    /\ rotHist' = Window(Append(rotHist, current_cookie_index'), cookies + 1)
    /\ UNCHANGED <<prog, pc, run, page, sinkVars, danVars, env,
                   upstream, imgResp, cookie_file, last_request_time, returned,
                   pixLoop, pixHist, histVars>>

InitRotate ==
    /\ InitPixWith(1..MaxPool, Env(0, 0, 0, 0, 0, 0))
    /\ max_images = 1

NextRotate == PixRotate

SpecRotate == InitRotate /\ [][NextRotate]_vars

(* ------------------------------ rate_limit ----------------------------- *)
MaxTime == 70
MaxOversleep == 1
(* random.uniform(0.1, 0.5) of l.69, in tenths of a second. *)
JitterMin == 1
JitterMax == 5
Jitter == JitterMin..JitterMax

SleepTime_JitterOnly(since, j) == j
(* l.67-69: the rest of the interval, plus the jitter. *)
SleepTime(since, j) == (min_request_interval - since) + j

(* rate_limit (l.62-70).  The clock is read at l.64; when less than the    *)
(* interval has passed since last_request_time the call sleeps, and        *)
(* time.sleep returns no sooner than asked (over is the excess); l.70      *)
(* reads the clock again.  The clock is taken to be monotone.              *)
RateLimit ==
    /\ prog = "pixiv"
    /\ \E j \in Jitter, over \in 0..MaxOversleep :
          LET time_since_last_request == now - last_request_time
              wake == IF time_since_last_request < min_request_interval
                      THEN now + SleepTime(time_since_last_request, j) + over
                      ELSE now + over
          IN
          /\ wake <= MaxTime
          /\ now' = wake
          /\ last_request_time' = wake
          /\ returned' = Window(Append(returned, wake), 2)
    /\ UNCHANGED <<prog, pc, run, page, sinkVars, danVars, env,
                   upstream, imgResp, cookie_file,
                   credVars, pixLoop, pixHist, rotHist, histVars>>

(* Time passing between two calls of rate_limit. *)
Tick ==
    /\ prog = "pixiv"
    /\ now < MaxTime
    /\ now' = now + 1
    /\ UNCHANGED <<prog, pc, run, page, sinkVars, danVars, env,
                   upstream, imgResp, cookie_file, last_request_time, returned,
                   pixVars, histVars>>

InitLimit ==
    /\ InitPixWith(1..1, Env(0, 0, 0, 0, 0, 0))
    /\ max_images = 1

NextLimit == RateLimit \/ Tick

SpecLimit == InitLimit /\ [][NextLimit]_vars

(* ========================== PixivRankingCrawler ======================== *)
(* create_session (l.25-33) mounts no retry adapter: one session.get is    *)
(* one HTTP exchange.                                                      *)
RankRetries == 0
RankCalls == {SessionGet(a, RankRetries) : a \in AnswerSeqs(RankRetries)}

RankExcept_SamePage ==
    /\ page' = page
    /\ pc' = "fetch"
    /\ data' = <<>>
    /\ illust' = 0

(* except Exception of run (l.139-142): the rest of the page is given up   *)
(* and the page number moves on; count < max_images still holds.           *)
RankExcept ==
    /\ page' = page + 1
    /\ pc' = "fetch"
    /\ data' = <<>>
    /\ illust' = 0

(* l.136 and the while test of l.116. *)
RankPageEnd(c) ==
    /\ page' = page + 1
    /\ pc' = IF c < max_images THEN "fetch" ELSE "done"
    /\ data' = <<>>
    /\ illust' = 0

(* The for loop of l.122 from `rest` on, with c images downloaded. *)
RankNextId(rest, c) ==
    IF c >= max_images \/ rest = <<>>
    THEN RankPageEnd(c)
    ELSE /\ illust' = Head(rest)
         /\ data' = Tail(rest)
         /\ pc' = "detail"
         /\ page' = page

(* The body of an answered ranking request: not JSON, JSON that is no     *)
(* object, or an object with the ids of its contents.                      *)
RankContents ==
    {[kind |-> "decode", ids |-> <<>>], [kind |-> "shape", ids |-> <<>>]}
    \cup {[kind |-> "data", ids |-> s] : s \in SeqsUpTo(IllustIds, env.posts)}

(* l.118-120 with get_illust_ids (l.35-55). *)
RankFetch(r, content) ==
    /\ prog = "ranking"
    /\ pc = "fetch"
    /\ page <= env.last
    /\ LET good == r.ok /\ content.kind = "data" IN
       /\ LogFetch(page, good)
       /\ IF ~good THEN RankExcept
          ELSE IF content.ids = <<>>
          THEN /\ pc' = "done"
               /\ UNCHANGED <<page, data, illust>>
          ELSE RankNextId(content.ids, downloaded_count)
    /\ dropped' = "no"
    /\ UNCHANGED <<prog, run, sinkVars, danLoop, envVars, credVars, max_images,
                   downloaded_count, attempt, pages, image_urls, page_index, pixHist,
                   rotHist, dlCalls, written, nFetch, allEmpty>>

(* The body of an answered detail request: a usable one, one with 'error'  *)
(* set, one without an original URL, one without 'body', or not JSON.      *)
DetailContents == {"ok", "error", "nourl", "shape", "decode"}

(* l.126-128 with get_image_detail (l.57-83). *)
RankDetail(r, content) ==
    /\ prog = "ranking"
    /\ pc = "detail"
    /\ IF ~r.ok \/ content \in {"shape", "decode"} THEN RankExcept
       ELSE IF content \in {"error", "nourl"} THEN RankNextId(data, downloaded_count)
       ELSE /\ pc' = "dl"
            /\ UNCHANGED <<page, data, illust>>
    /\ dropped' = IF ~r.ok \/ content \in {"shape", "decode"} THEN "logged"
                  ELSE IF content \in {"error", "nourl"} THEN "silent"
                  ELSE "no"
    /\ UNCHANGED <<prog, run, sinkVars, danLoop, envVars, credVars, max_images,
                   downloaded_count, attempt, pages, image_urls, page_index, pixHist,
                   rotHist, histVars>>

(* download_image (l.85-109): what it leaves on disk and what it returns. *)
RankStore(k, r, diskOk, metaRes) ==
    IF files[k] # "none" THEN [files |-> files, meta |-> meta, ret |-> FALSE]
    ELSE IF ~r.ok THEN [files |-> files, meta |-> meta, ret |-> FALSE]
    ELSE IF ~diskOk
    THEN [files |-> [files EXCEPT ![k] = "partial"], meta |-> meta, ret |-> FALSE]
    ELSE [files |-> [files EXCEPT ![k] = "full"],
          meta |-> IF metaRes = "none" THEN meta ELSE meta \cup {k},
          ret |-> metaRes = "ok"]

(* l.130-134: the download of the current illust and the next turn. *)
RankDownload(r, diskOk, metaRes) ==
    /\ prog = "ranking"
    /\ pc = "dl"
    /\ DiskFault(diskOk, metaRes, files[Key(illust, 0)] = "none" /\ r.ok)
    /\ LET st == RankStore(Key(illust, 0), r, diskOk, metaRes)
           c == IF st.ret THEN downloaded_count + 1 ELSE downloaded_count
       IN
       /\ files' = st.files
       /\ meta' = st.meta
       /\ downloaded_count' = c
       /\ RankNextId(data, c)
       /\ dropped' = IF st.ret THEN "no"
                     ELSE IF files[Key(illust, 0)] # "none" THEN "silent"
                     ELSE "logged"
    /\ UNCHANGED <<prog, run, danLoop, envVars, credVars, max_images, attempt, pages,
                   image_urls, page_index, pixHist, rotHist, histVars>>

(* __init__ (l.11-19) and run (l.111-113), over an empty output directory. *)
InitRankWith(b) ==
    /\ prog = "ranking"
    /\ env = b
    /\ run = 1
    /\ pc = "fetch"
    /\ page = 1
    /\ files = EmptySink[1]
    /\ meta = EmptySink[2]
    /\ IdleDan
    /\ IdlePix
    /\ cookie_file = CookieLines(1)
    /\ max_images \in 1..MaxImages
    /\ NoHistory

NextRank ==
    \/ \E r \in RankCalls : \E content \in Read(r.ok, RankContents) :
          /\ RankFetch(r, content)
          /\ Charge("page", ~r.ok \/ content.kind # "data")
    \/ \E r \in RankCalls : \E content \in Read(r.ok, DetailContents) :
          /\ RankDetail(r, content)
          /\ Charge("item", ~r.ok \/ content \in {"shape", "decode"})
    \/ /\ pc = "dl"
       /\ prog = "ranking"
       /\ \E r \in Sent(Key(illust, 0), RankCalls), diskOk \in BOOLEAN,
             metaRes \in MetaResults :
             /\ RankDownload(r, diskOk, metaRes)
             /\ IF r.ok THEN Charge("disk", ~(diskOk /\ metaRes = "ok"))
                ELSE Charge("item", TRUE)

(* ============================ unsplash Crawler ========================= *)
(* What requests.get of l.39 can give: it raises, it answers another       *)
(* status than 200, or it answers 200 with a body that is not JSON or      *)
(* with results; `short` says that total_pages is below the page asked.    *)
UnsResponses ==
    {[kind |-> k, results |-> <<>>, short |-> FALSE] : k \in {"raise", "status", "decode"}}
    \cup {[kind |-> "data", results |-> s, short |-> b] :
             s \in SeqsUpTo(Ids, env.posts), b \in BOOLEAN}

(* for page in range(self.start_page, self.max_page + 1): the next turn. *)
UnsAdvance ==
    /\ page' = page + 1
    /\ pc' = IF page + 1 <= max_pages THEN "fetch" ELSE "done"

(* l.32-49 and l.61-63: the request of one page.  Nothing catches an       *)
(* exception of requests.get or of r.json().                               *)
UnsFetch(resp) ==
    /\ prog = "unsplash"
    /\ pc = "fetch"
    /\ LogFetch(page, resp.kind = "data")
    /\ IF resp.kind \in {"raise", "decode"}
       THEN /\ pc' = "crashed"
            /\ UNCHANGED <<page, data>>
       ELSE IF resp.kind = "status"
       THEN /\ UnsAdvance
            /\ UNCHANGED data
       ELSE IF resp.results = <<>> \/ resp.short
       THEN /\ pc' = "done"
            /\ UNCHANGED <<page, data>>
       ELSE /\ data' = resp.results
            /\ pc' = "items"
            /\ page' = page
    /\ UNCHANGED <<prog, run, sinkVars, danVars, envVars, credVars, max_images,
                   downloaded_count, illust, attempt, pages, image_urls, page_index,
                   pixHist, rotHist, dlCalls, written, nFetch, allEmpty>>

(* download_image (l.22-28): the body of whatever answer arrives is        *)
(* written, its status is not looked at; an exception is printed.          *)
UnsStore(k, answer, diskOk) ==
    IF answer = "net" THEN files
    ELSE IF ~diskOk THEN [files EXCEPT ![k] = "partial"]
    ELSE [files EXCEPT ![k] = IF answer = "ok" THEN "full" ELSE "other"]

(* l.51-59: one turn of the loop over the results of the page. *)
UnsItem(answer, diskOk) ==
    /\ prog = "unsplash"
    /\ pc = "items"
    /\ data # <<>>
    /\ ~diskOk => files[Key(Head(data), 0)] = "none" /\ answer # "net"
    /\ LET k == Key(Head(data), 0) IN
       files' = IF files[k] # "none" THEN files ELSE UnsStore(k, answer, diskOk)
    /\ data' = Tail(data)
    /\ IF Tail(data) = <<>> THEN UnsAdvance ELSE UNCHANGED <<pc, page>>
    /\ UNCHANGED <<prog, run, meta, danVars, envVars, credVars, max_images,
                   downloaded_count, illust, attempt, pages, image_urls, page_index,
                   pixHist, rotHist, histVars>>

(* __init__ (l.8-20) and crawl (l.31), over an empty save_dir. *)
InitUnsWith(b, start, maxp) ==
    /\ prog = "unsplash"
    /\ env = b
    /\ run = 1
    /\ page = start
    /\ pc = IF start <= maxp THEN "fetch" ELSE "done"
    /\ files = EmptySink[1]
    /\ meta = EmptySink[2]
    /\ posts = <<>>
    /\ empty_post_cnt = 0
    /\ image_id_set = {}
    /\ metadata = 0
    /\ dropped = "no"
    /\ upstream = <<>>
    /\ imgResp = <<>>
    /\ cookie_file = NoCookieFile
    /\ StartClock
    /\ max_pages = maxp
    /\ IdlePix
    /\ max_images = 0
    /\ NoHistory

NextUns ==
    \/ \E resp \in UnsResponses :
          /\ UnsFetch(resp)
          /\ Charge("page", resp.kind # "data")
    \/ /\ pc = "items"
       /\ prog = "unsplash"
       /\ data # <<>>
       /\ \E answer \in (IF files[Key(Head(data), 0)] = "none" THEN HttpAnswers ELSE {"ok"}),
             diskOk \in BOOLEAN :
             /\ UnsItem(answer, diskOk)
             /\ IF answer = "ok" THEN Charge("disk", ~diskOk)
                ELSE Charge("item", TRUE) /\ diskOk

(* ============================ the four crawlers ======================== *)
(* A search in which requests of one kind, or the disk, may fail. *)
InitPix ==
    \E site \in {"page", "item", "disk"} :
       InitPixWith(1..MaxCookies,
                   Env(IF site = "page" THEN PageFaults ELSE 0,
                       IF site = "item" THEN ItemFaults ELSE 0,
                       IF site = "disk" THEN DiskFaults ELSE 0,
                       MaxPosts, MaxSub, MaxPixPages))
InitRank == InitRankWith(Env(PageFaults, ItemFaults, DiskFaults, MaxPosts, 1, MaxPixPages))
InitUns ==
    \E start \in 1..MaxStart, maxp \in 1..MaxPixPages :
       InitUnsWith(Env(PageFaults, ItemFaults, DiskFaults, MaxPosts, 1, maxp), start, maxp)

Init == InitDan \/ InitPix \/ InitRank \/ InitUns
Next == NextDan \/ NextPix \/ NextRank \/ NextUns
Spec == Init /\ [][Next]_vars

(* A source whose page request fails on every call.  The crawler is a      *)
(* sequential program: it always takes its next step.                      *)
(* ----------------------------- construction --------------------------- *)
MaxLines == 2
CookieFiles ==
    {NoCookieFile} \cup {[exists |-> TRUE, lines |-> l] : l \in SeqsUpTo(BOOLEAN, MaxLines)}

(* [line.strip() for line in f if line.strip()] (pixiv l.31) *)
NonBlank(lines) == Cardinality({i \in 1..Len(lines) : lines[i]})

(* PixivCrawler.__init__ (l.13-23): load_cookies raises when the file is   *)
(* missing (l.27-29) or holds no non-blank line (l.33-34); nothing catches *)
(* it.                                                                     *)
PixNew ==
    /\ prog = "pixiv"
    /\ pc = "new"
    /\ IF ~cookie_file.exists \/ NonBlank(cookie_file.lines) = 0
       THEN /\ pc' = "failed"
            /\ cookies' = cookies
       ELSE /\ pc' = "search"
            /\ cookies' = NonBlank(cookie_file.lines)
    /\ UNCHANGED <<prog, run, page, sinkVars, danVars, envVars, env,
                   current_cookie_index, session, pixLoop, pixHist, rotHist, histVars>>

(* PixivRankingCrawler.__init__ (l.11-19): open raises when the file is    *)
(* missing; otherwise load_cookie (l.21-23) takes the first line, stripped,*)
(* whatever it is, and create_session sets it as PHPSESSID (l.32).         *)
(* cookies counts the credentials held: 0 is the empty string.             *)
RankNew ==
    /\ prog = "ranking"
    /\ pc = "new"
    /\ IF ~cookie_file.exists
       THEN /\ pc' = "failed"
            /\ cookies' = cookies
       ELSE /\ pc' = "fetch"
            /\ cookies' = IF cookie_file.lines # <<>> /\ cookie_file.lines[1] THEN 1 ELSE 0
    /\ UNCHANGED <<prog, run, page, sinkVars, danVars, envVars, env,
                   current_cookie_index, session, pixLoop, pixHist, rotHist, histVars>>

(* Before the constructor has run, with any cookie file. *)
InitConfig ==
    /\ prog \in {"pixiv", "ranking"}
    /\ env = Env(PageFaults, 0, 0, 1, 1, 1)
    /\ run = 1
    /\ pc = "new"
    /\ page = 1
    /\ files = EmptySink[1]
    /\ meta = EmptySink[2]
    /\ max_pages = 0
    /\ posts = <<>>
    /\ empty_post_cnt = 0
    /\ image_id_set = {}
    /\ metadata = 0
    /\ dropped = "no"
    /\ upstream = <<>>
    /\ imgResp = <<>>
    /\ StartClock
    /\ cookie_file \in CookieFiles
    /\ cookies = 0
    /\ current_cookie_index = 0
    /\ session = 0
    /\ rotHist = <<0>>
    /\ max_images = 1
    /\ downloaded_count = 0
    /\ data = <<>>
    /\ illust = 0
    /\ attempt = 0
    /\ pages = <<>>
    /\ image_urls = <<>>
    /\ page_index = 0
    /\ op = NewOp
    /\ NoHistory

NextConfig == PixNew \/ RankNew \/ NextPix \/ NextRank

SpecConfig == InitConfig /\ [][NextConfig]_vars

(* ------------------- a run over a source that never fails ------------- *)
ScenarioImages == 10
ScenarioPages == 2

(* The source: the ids of each of its pages; every later page is empty. *)
Sources == [1..ScenarioPages -> SeqsUpTo(IllustIds, MaxPosts)]
ServedIds(p) == IF p <= Len(upstream) THEN upstream[p] ELSE <<>>
(* Every illust is a single image (illustType 0) with one original URL. *)
Served(p) == [i \in 1..Len(ServedIds(p)) |-> [id |-> ServedIds(p)[i], single |-> TRUE]]
OkAnswer == [ok |-> TRUE, kind |-> "ok"]
OkCall == [r |-> OkAnswer, absorbed |-> FALSE]

InitScenario ==
    /\ prog \in {"pixiv", "ranking"}
    /\ env = Env(0, 0, 0, MaxPosts, 1, ScenarioPages + 1)
    /\ run = 1
    /\ pc = IF prog = "pixiv" THEN "search" ELSE "fetch"
    /\ page = 1
    /\ files = EmptySink[1]
    /\ meta = EmptySink[2]
    /\ max_pages = 0
    /\ posts = <<>>
    /\ empty_post_cnt = 0
    /\ image_id_set = {}
    /\ metadata = 0
    /\ dropped = "no"
    /\ upstream \in Sources
    /\ imgResp = <<>>
    /\ StartClock
    /\ cookie_file = CookieLines(1)
    /\ IdlePix
    /\ max_images = ScenarioImages
    /\ NoHistory

NextScenario ==
    \/ PixSearch(OkCall, [kind |-> "data", items |-> Served(page)]) /\ env' = env
    \/ PixPages(OkCall, [kind |-> "body", body |-> <<TRUE>>]) /\ env' = env
    \/ PixMeta(OkCall, "ok") /\ env' = env
    \/ PixDownload(OkCall, TRUE, "ok") /\ env' = env
    \/ RankFetch(OkAnswer, [kind |-> "data", ids |-> ServedIds(page)]) /\ env' = env
    \/ RankDetail(OkAnswer, "ok") /\ env' = env
    \/ RankDownload(OkAnswer, TRUE, "ok") /\ env' = env

SpecScenario == InitScenario /\ [][NextScenario]_vars

InitDown ==
    \/ InitPixWith(2..MaxPool, Env(0, 0, 0, MaxPosts, 1, 1))
    \/ InitRankWith(Env(0, 0, 0, MaxPosts, 1, MaxPages))

NextDown ==
    \/ \E call \in {c \in PixCalls : ~c.r.ok} :
          /\ PixSearch(call, CHOOSE c \in SearchContents : TRUE)
          /\ UNCHANGED env
    \/ \E r \in {c \in RankCalls : ~c.ok} :
          /\ RankFetch(r, CHOOSE c \in RankContents : TRUE)
          /\ UNCHANGED env

SpecDown == InitDown /\ [][NextDown]_vars /\ WF_vars(NextDown)

(* ================================ claims =============================== *)

(* C1: in one run of DanbooruCrawler.crawl, whatever pages the source      *)
(* returns, download_image is called at most once per post id: the seen    *)
(* set only grows, and no step calls download_image for an id that is      *)
(* already in it, whether or not the first download succeeded.             *)
C1_AtMostOnce ==
    [][prog = "danbooru" =>
          /\ image_id_set \subseteq image_id_set'
          /\ \A i \in Ids :
                /\ dlCalls'[i] <= 1
                /\ i \in image_id_set => dlCalls'[i] = dlCalls[i]
                /\ dlCalls'[i] > dlCalls[i] => i \in image_id_set']_vars

(* A post that passes every check comes up again on a later page, after    *)
(* the one download of its id failed.                                      *)
C1_Witness ==
    /\ prog = "danbooru"
    /\ pc = "posts"
    /\ posts # <<>>
    /\ Head(posts).kind = "ok"
    /\ Head(posts).id \in image_id_set
    /\ dlCalls[Head(posts).id] = 1
    /\ files[Key(Head(posts).id, 0)] = "none"
    /\ nFetch >= 2

(* C2: when every page the source returns is empty, DanbooruCrawler.crawl *)
(* fetches at most 3 pages and has ended once the third is fetched,        *)
(* however large max_pages is.                                             *)
C2_EmptyStop ==
    (prog = "danbooru" /\ allEmpty) =>
        /\ nFetch <= EmptyLimit
        /\ nFetch = EmptyLimit => pc = "done"

(* Three empty pages ended a run that had pages left. *)
C2_Witness ==
    /\ prog = "danbooru"
    /\ allEmpty
    /\ nFetch = EmptyLimit
    /\ pc = "done"
    /\ page < max_pages

(* C3: with a source whose page request fails on every call,               *)
(* search_and_download and run eventually end (or, for the model of run,   *)
(* leave the pages followed here).                                         *)
C3_FailingSourceEnds == <>(pc = "done" \/ page > env.last)

(* C4 as stated: no failed fetch of page p is directly followed by a       *)
(* fetch of page p + 1.                                                    *)
C4_AdvanceOnlyOnSuccess ==
    (prevFetch.page > 0 /\ ~prevFetch.ok) => lastFetch.page # prevFetch.page + 1

(* C4 amended: the page number is never more than one past the last page   *)
(* fetched, and successive fetches are of the same page or the next.       *)
(* PixivCrawler.search_and_download fetches the same page again after a    *)
(* failed fetch; the three other crawlers fetch page p + 1 after every     *)
(* fetch of page p, failed or not.                                         *)
C4_Cursor ==
    /\ lastFetch.page > 0 => page \in {lastFetch.page, lastFetch.page + 1}
    /\ prevFetch.page > 0 =>
          /\ lastFetch.page \in {prevFetch.page, prevFetch.page + 1}
          /\ (prog = "pixiv" /\ ~prevFetch.ok) => lastFetch.page = prevFetch.page
          /\ prog # "pixiv" => lastFetch.page = prevFetch.page + 1

(* A ranking page whose fetch failed, and the fetch of the page after it.  *)
C4_Witness ==
    /\ prog = "ranking"
    /\ prevFetch.page > 0
    /\ ~prevFetch.ok
    /\ lastFetch.page = prevFetch.page + 1
    /\ lastFetch.ok

(* C5: a second run of DanbooruCrawler.crawl against the same answers and  *)
(* the output directory of the first writes no asset file and counts no    *)
(* downloaded item.                                                        *)
C5_SecondRunWritesNothing == run = 2 => (written = {} /\ metadata = 0)

(* C6: in every state of the sink a metadata record for a key implies an   *)
(* asset file for that key.                                                *)
C6_MetaImpliesAsset == \A k \in Keys : k \in meta => files[k] # "none"

(* One asset was stored with its record, and the write of another failed. *)
C6_Witness ==
    \E k \in Keys, j \in Keys :
       /\ j \in meta
       /\ files[j] = "full"
       /\ files[k] = "partial"
       /\ k \notin meta

(* C7: in the output directory of a PixivCrawler or PixivRankingCrawler    *)
(* no asset file survives a download_image call that failed: no file is    *)
(* left with part of its bytes.                                            *)
C7_NoPartialFile ==
    prog \in {"pixiv", "ranking"} => \A k \in Keys : files[k] # "partial"

(* C8: with more than one cookie, the last len(cookies) calls of           *)
(* rotate_cookie made each cookie the current one exactly once, and the    *)
(* last of them made current the cookie that was current before the first. *)
C8_Circular ==
    (prog = "pixiv" /\ cookies > 1 /\ Len(rotHist) = cookies + 1) =>
        /\ {rotHist[j] : j \in 2..(cookies + 1)} = 0..(cookies - 1)
        /\ rotHist[cookies + 1] = rotHist[1]
        /\ session = current_cookie_index

(* len(cookies) rotations that did not start at cookie 0. *)
C8_Witness ==
    /\ prog = "pixiv"
    /\ cookies > 2
    /\ Len(rotHist) = cookies + 1
    /\ rotHist[1] = 1

(* C9: when a request of a PixivCrawler is answered HTTP 429 and then 200, *)
(* exactly one rotation is made for it.                                    *)
C9_RotatesOnce == (op.absorbed /\ op.n = 0) => op.rot = 1

(* C10: get_image_details makes at most max_retries attempts for one       *)
(* illust, and when each of them fails with a request error it returns     *)
(* ([], []): search_and_download goes on with the next illust of the page  *)
(* or with the next page.                                                  *)
C10_RetryBounded ==
    prog = "pixiv" =>
        /\ attempt < max_retries
        /\ op.what = "details" => op.n <= max_retries
        /\ (op.what = "details" /\ op.n = max_retries) =>
              /\ op.result = "empty"
              /\ (pc = "pages" /\ attempt = 0) \/ page = lastFetch.page + 1

(* Three failed attempts for one illust, and the next illust in hand. *)
C10_Witness ==
    /\ prog = "pixiv"
    /\ op.what = "details"
    /\ op.n = max_retries
    /\ op.result = "empty"
    /\ pc = "pages"
    /\ illust # 0

(* C11: a request of a PixivCrawler that failed with a client error (4xx   *)
(* other than 429) or with a body that cannot be decoded is not issued     *)
(* again: get_image_details makes no further attempt after such a failure  *)
(* and search_and_download does not fetch the page again.                  *)
C11_NotRetried ==
    (prog = "pixiv" /\ op.first \in {"client", "decode"}) =>
        /\ op.n <= 1
        /\ op.what = "details" => pc # "meta"
        /\ op.what = "search" => op.result = "none"

(* C12: rotate_cookie is called only in response to a failure that is an   *)
(* HTTP 429: an operation whose one failure was of another kind made no    *)
(* rotation.                                                               *)
C12_RotatesOnlyOn429 ==
    (prog = "pixiv" /\ op.n = 1 /\ op.first # "rate") => op.rot = 0

(* C13: within one call of get_image_details the base delay slept after    *)
(* failed attempt k (from 0) is 2^k, so each delay is at least the one      *)
(* before it and doubles; nothing is slept after the last failed attempt.  *)
C13_Backoff ==
    (prog = "pixiv" /\ op.what = "details") =>
        /\ Len(op.delays) = (IF op.n < max_retries THEN op.n ELSE max_retries - 1)
        /\ \A k \in 1..Len(op.delays) : op.delays[k] = 2 ^ (k - 1)
        /\ \A k \in 2..Len(op.delays) : op.delays[k] = 2 * op.delays[k - 1]

(* A call whose three attempts failed slept 1 and 2 seconds. *)
C13_Witness ==
    /\ prog = "pixiv"
    /\ op.what = "details"
    /\ op.n = max_retries
    /\ op.delays = <<1, 2>>

(* C14: the return times of two consecutive rate_limit calls are at least  *)
(* min_request_interval apart, and last_request_time never decreases.      *)
C14_Spacing ==
    [][ /\ Len(returned') = 2 =>
              returned'[2] - returned'[1] >= min_request_interval
        /\ last_request_time' >= last_request_time ]_vars

(* A call that came too early, slept, and returned just past the interval. *)
C14_Witness ==
    /\ Len(returned) = 2
    /\ returned[2] - returned[1] = min_request_interval + JitterMin
    /\ last_request_time = returned[2]

(* C18: with a pool of one cookie a rotation leaves index and token as     *)
(* they were and returns no sooner than the cooldown after it began.       *)
C18_SingleCookie ==
    [][ (prog = "pixiv" /\ cookies = 1 /\ (rotHist' # rotHist \/ now' # now)) =>
            /\ current_cookie_index' = current_cookie_index
            /\ session' = session
            /\ now' >= now + RotateCooldown ]_vars

C18_Witness ==
    /\ prog = "pixiv"
    /\ cookies = 1
    /\ rotHist = <<0, 0>>
    /\ current_cookie_index = 0
    /\ session = 0
    /\ now >= min_request_interval + 2 * RotateCooldown

(* C15: with a cookie file that is missing or holds no non-blank line the  *)
(* crawler is never constructed, so it never gets to issue a request.      *)
C15_FatalAtStartup ==
    (~cookie_file.exists \/ NonBlank(cookie_file.lines) = 0) => pc \in {"new", "failed"}

(* The ids a run is handed: those of the pages up to the first empty one, *)
(* where both loops stop.                                                  *)
RECURSIVE ReturnedIds(_)
ReturnedIds(src) ==
    IF src = <<>> \/ Head(src) = <<>> THEN {}
    ELSE {Head(src)[i] : i \in 1..Len(Head(src))} \cup ReturnedIds(Tail(src))

(* C16: over a source that never fails, with max_images = 10 and one asset *)
(* per item, a finished run has stored each distinct id returned exactly   *)
(* once and counts as many downloads as there are distinct ids.            *)
C16_StoresDistinctIds ==
    (prog \in {"pixiv", "ranking"} /\ upstream \in Sources /\ pc = "done") =>
        /\ downloaded_count = Cardinality(ReturnedIds(upstream))
        /\ {k \in Keys : files[k] # "none"} = {Key(i, 0) : i \in ReturnedIds(upstream)}
        /\ \A k \in Keys : files[k] \in {"none", "full"}
        /\ meta = {Key(i, 0) : i \in ReturnedIds(upstream)}

(* Page 1 returns a, b and page 2 returns b, c: three stores, count 3. *)
C16_Witness ==
    /\ upstream \in Sources
    /\ upstream = << <<1, 2>>, <<2, RateLikeId>> >>
    /\ pc = "done"
    /\ downloaded_count = 3
    /\ {k \in Keys : files[k] = "full"} = {Key(1, 0), Key(2, 0), Key(RateLikeId, 0)}

(* C17: no step passes over an item of a page without a log line for it.  *)
C17_NoSilentDrop == dropped # "silent"

(* C19: every request a PixivCrawler run sends has a rate_limit() call    *)
(* before it.                                                              *)
C19_EveryRequestLimited == prog = "pixiv" => ~op.bare

(* C20: the count of consecutive empty pages stays in 0..3; a fetch that   *)
(* returns posts sets it to 0 and one that returns none adds 1; and crawl  *)
(* has left its loop with pages still to go only with the count at 3.      *)
C20_EmptyCounter ==
    [][ prog = "danbooru" =>
          /\ empty_post_cnt' \in 0..EmptyLimit
          /\ (pc' = "done" /\ page' <= max_pages) => empty_post_cnt' = EmptyLimit
          /\ nFetch' = nFetch + 1 =>
                /\ posts' # <<>> => empty_post_cnt' = 0
                /\ posts' = <<>> => empty_post_cnt' = empty_post_cnt + 1
                /\ (pc' = "done" /\ page' <= max_pages) => posts' = <<>> ]_vars

(* Five pages fetched, some of them with posts, the last two empty: the    *)
(* count is 2 and the run ended only because the pages ran out.            *)
C20_Witness ==
    /\ prog = "danbooru"
    /\ nFetch = MaxPages
    /\ ~allEmpty
    /\ empty_post_cnt = 2
    /\ pc = "done"
    /\ page > max_pages

(* C21: in a Pixiv search or ranking run the downloaded count never passes *)
(* max_images, it grows by one and only in a download step that stored a   *)
(* new asset with its record, and once it has reached max_images the run   *)
(* takes no further step: no page fetch, no detail fetch, no download.     *)
C21_CountBounded ==
    [][ (prog = "pixiv" \/ prog = "ranking") =>
          ( /\ downloaded_count < max_images
            /\ downloaded_count' <= max_images
            /\ (downloaded_count' # downloaded_count) =>
                  ( /\ downloaded_count' = downloaded_count + 1
                    /\ pc = "dl"
                    /\ Key(illust, page_index) \in meta'
                    /\ files[Key(illust, page_index)] = "none"
                    /\ files'[Key(illust, page_index)] = "full" ) ) ]_vars

(* A two-page illust whose first page filled the quota: the second page    *)
(* was not downloaded and the run is over.                                 *)
C21_Witness ==
    /\ prog = "pixiv"
    /\ pc = "done"
    /\ max_images = 1
    /\ downloaded_count = 1
    /\ \E id \in IllustIds : files[Key(id, 0)] = "full" /\ files[Key(id, 1)] = "none"

(* C22: the cookie index of a PixivCrawler stays inside the pool, and the  *)
(* session every request goes through was built with the cookie the index  *)
(* points to, whatever rotations came before.                              *)
C22_SessionFollowsIndex ==
    prog = "pixiv" =>
        /\ current_cookie_index \in 0..(cookies - 1)
        /\ session \in 0..(cookies - 1)
        /\ session = current_cookie_index

(* A /pages request answered after a rotation inside the same              *)
(* get_image_details call, through the session of the second cookie.       *)
C22_Witness ==
    /\ prog = "pixiv"
    /\ cookies = MaxCookies
    /\ op.what = "details"
    /\ op.rot >= 1
    /\ pc = "meta"
    /\ current_cookie_index = 1
    /\ session = 1

(* C23: a sub-asset is stored under the index that is its position in the  *)
(* illust, the 'page' field of the metadata record stored with it.         *)
C23_KeyIsPagePosition ==
    [][ (prog = "pixiv" /\ pc = "dl" /\ files' # files) =>
            Head(image_urls) = page_index ]_vars
=============================================================================
